---- MODULE Spec2Model ----
(***************************************************************************)
(* The Handler event loop of chromiumoxide (src/src/handler/mod.rs).       *)
(*                                                                         *)
(* One poll_next invocation is modelled as a walk through its four loops   *)
(* (pc = "intake", "targets", "conn", "evict"); pc = "idle" is the point   *)
(* between two invocations.  Every message the Handler takes from a        *)
(* channel, from a target or from the connection is one action.  What the  *)
(* client, the targets and the browser hand to the Handler is chosen       *)
(* nondeterministically at the moment the Handler takes it.                *)
(*                                                                         *)
(* HttpFuture (src/src/handler/httpfuture.rs) and the task that awaits it  *)
(* are modelled next to the Handler, in variables of their own.            *)
(***************************************************************************)
EXTENDS Integers, Sequences, FiniteSets

(***************************************************************************)
(* Bounds of the model.                                                    *)
(***************************************************************************)
\* call-ids the connection hands out: 0 .. MaxCall-1 (0 is taken by Handler::new)
MaxCall == 3
\* one-shot reply channels the clients create: 1 .. MaxTx
MaxTx == 2
\* navigation-ids the Handler allocates in a run: 0 .. MaxNav-1
MaxNav == 1
\* TargetCreated events are taken while the target-ids list is shorter than this
MaxTargetIds == 3
\* the navigation-id counter counts modulo NavIdSpace (the size of usize, scaled)
NavIdSpace == 4
\* wake-ups of the HttpFuture's task that none of its futures asked for
MaxSpurious == 2
\* the clock stops at MaxClock milliseconds, advancing ClockStep at a time
MaxClock == 30001
ClockStep == 30001

\* Standard timeout in MS
REQUEST_TIMEOUT == 30000

TargetIds == {"T1", "T2"}
SessionIds == {"S1"}
\* navigate commands it takes to bring the navigation-id counter back to an
\* id it has handed out
WrapTx == NavIdSpace + 1
\* the reply channels: those of a run within MaxTx, and those of a run that
\* wraps the navigation-id counter
Txs == 1 .. (IF WrapTx > MaxTx THEN WrapTx ELSE MaxTx)
CallIds == 0 .. (MaxCall - 1)

\* Option<T>: None or Some(x)
None == <<>>
Some(x) == <<x>>
IsSome(o) == o # <<>>
Unwrap(o) == o[1]

\* a function without key k / with key k bound to v (HashMap::remove, insert)
MapRemove(m, k) == [x \in (DOMAIN m) \ {k} |-> m[x]]
MapInsert(m, k, v) == [x \in (DOMAIN m) \cup {k} |-> IF x = k THEN v ELSE m[x]]
EmptyMap == [x \in {} |-> 0]

VARIABLES
    pending_commands,   \* call-id -> [req, at]
    target_ids,         \* Vec<TargetId>
    targets,            \* target-id -> Target
    navigations,        \* navigation-id -> NavigationInProgress
    sessions,           \* session-id -> Session
    next_navigation_id, \* the navigation-id counter
    next_call_id,       \* the connection's call-id counter
    conn_terminated,    \* the connection's sequence has ended
    pc,                 \* where poll_next stands
    now,                \* `now` of the running poll_next
    n,                  \* loop variable of the target loop
    cur,                \* the target detached from the registry, if any
    clock,              \* Instant::now()
    next_tx,            \* the next fresh reply channel
    replies,            \* reply channel -> what was sent on it, in order
    created,            \* target-ids announced by TargetCreated, not yet destroyed
    attached,           \* session-ids announced attached, not yet detached
    responded,          \* call-ids whose response the Handler has dispatched
    tx_call,            \* reply channel -> call-id of the command submitted for it
    tx_kind,            \* reply channel -> the message it came with
    overdue,            \* call-ids pending past the timeout when the job last fired
    last,               \* the last Handler step: what it was given
    visit,              \* the target loop of the running poll: what it started
                        \* from, the targets it detached and those it put back
    command,            \* HttpFuture::command, a Fuse<CommandFuture>
    navigation,         \* HttpFuture::navigation, a NavigationFuture
    task                \* the task that awaits the HttpFuture

vars == <<pending_commands, target_ids, targets, navigations, sessions,
          next_navigation_id, next_call_id, conn_terminated, pc, now, n, cur, clock, next_tx,
          replies, created, attached, responded, tx_call, tx_kind, overdue,
          last, visit, command, navigation, task>>

handler == <<pending_commands, target_ids, targets, navigations, sessions,
             next_navigation_id, next_call_id, conn_terminated>>
history == <<created, attached, responded, tx_call, tx_kind, overdue>>
http == <<command, navigation, task>>

(***************************************************************************)
(* Values.                                                                 *)
(***************************************************************************)
\* Response {id, result?, error?}: kind "result" carries a payload; the payload
\* of a createTarget result names a target-id, "none" is a payload that does
\* not decode as a CreateTargetResponse.
Responses ==
    [id : CallIds, kind : {"result"}, target : TargetIds \cup {"none"}]
        \cup [id : CallIds, kind : {"error", "empty"}, target : {"none"}]

\* what a reply channel carries
OkResp(resp) == [tag |-> "Ok", resp |-> Some(resp), page |-> "none", err |-> "none"]
OkPage(t) == [tag |-> "Ok", resp |-> None, page |-> t, err |-> "none"]
ErrOut(e) == [tag |-> "Err", resp |-> None, page |-> "none", err |-> e]
PagesOut(ts) == [tag |-> "Pages", resp |-> None, page |-> "none", err |-> "none",
                 pages |-> ts]

\* enum PendingRequest
CreateTarget(tx) ==
    [kind |-> "CreateTarget", tx |-> tx, nav |-> -1, target |-> "none"]
Navigate(id) ==
    [kind |-> "Navigate", tx |-> 0, nav |-> id, target |-> "none"]
ExternalCommand(tx) ==
    [kind |-> "ExternalCommand", tx |-> tx, nav |-> -1, target |-> "none"]
InternalCommand(t) ==
    [kind |-> "InternalCommand", tx |-> 0, nav |-> -1, target |-> t]

\* NavigationInProgress::new(tx)
NavigationInProgress(tx) == [navigated |-> FALSE, response |-> None, tx |-> tx]

\* Target::new(target_info): no session, no initiator, no navigation handed
\* over, no response received
NewTarget == [session_id |-> None, initiator |-> None, navs |-> {}, responses |-> {}]

\* OneshotSender::send: the outcome is appended to what the channel carried
Send(rs, tx, out) == [rs EXCEPT ![tx] = Append(@, out)]

\* to_command_response::<CreateTargetParams>(resp)
ToCommandResponse(resp) ==
    IF resp.kind = "result"
    THEN IF resp.target \in TargetIds
         THEN [ok |-> TRUE, target_id |-> resp.target, err |-> "none"]
         ELSE [ok |-> FALSE, target_id |-> "none", err |-> "Serde"]
    ELSE IF resp.kind = "error"
         THEN [ok |-> FALSE, target_id |-> "none", err |-> "Chrome"]
         ELSE [ok |-> FALSE, target_id |-> "none", err |-> "NoResponse"]

\* Vec::swap_remove(i), i counted from 0: the last element takes the place of
\* the removed one
SwapRemove(v, i) ==
    IF i + 1 = Len(v)
    THEN SubSeq(v, 1, Len(v) - 1)
    ELSE [k \in 1 .. (Len(v) - 1) |-> IF k = i + 1 THEN v[Len(v)] ELSE v[k]]

\* no target loop is running
NoVisit == [start |-> <<>>, registry |-> {}, detached |-> <<>>, inserted |-> <<>>]

Init ==
    /\ pending_commands = EmptyMap
    /\ target_ids = <<>>
    /\ targets = EmptyMap
    /\ navigations = EmptyMap
    /\ sessions = EmptyMap
    /\ next_navigation_id = 0
    /\ next_call_id = 1
    /\ conn_terminated = FALSE
    /\ pc = "idle"
    /\ now = 0
    /\ n = -1
    /\ cur = None
    /\ clock = 0
    /\ next_tx = 1
    /\ replies = [t \in Txs |-> <<>>]
    /\ created = {}
    /\ attached = {}
    /\ responded = {}
    /\ tx_call = [t \in Txs |-> -1]
    /\ tx_kind = [t \in Txs |-> "unused"]
    /\ overdue = {}
    /\ last = [op |-> "new"]
    /\ visit = NoVisit
    /\ command = [out |-> None, waker |-> FALSE, terminated |-> FALSE]
    /\ navigation = [out |-> None, waker |-> FALSE, polls |-> 0]
    /\ task = [woken |-> TRUE, result |-> None, polls |-> 0, spurious |-> 0]

(***************************************************************************)
(* The world outside the Handler.                                          *)
(***************************************************************************)
\* time passes between two polls of the Handler
AdvanceClock ==
    /\ pc = "idle"
    /\ clock + ClockStep <= MaxClock
    /\ clock' = clock + ClockStep
    /\ last' = [op |-> "clock"]
    /\ UNCHANGED <<handler, history, pc, now, n, cur, next_tx, replies, http, visit>>

(***************************************************************************)
(* poll_next, entry.                                                       *)
(***************************************************************************)
PollStart ==
    /\ pc = "idle"
    /\ pc' = "intake"
    /\ now' = clock
    /\ last' = [op |-> "poll"]
    /\ UNCHANGED <<handler, history, n, cur, clock, http, visit, next_tx, replies>>

(***************************************************************************)
(* Handler methods that submit a command.  Each is an action on            *)
(* pending_commands, next_call_id and tx_call; `ok` is whether             *)
(* Connection::submit_command returned Ok(call_id).                        *)
(***************************************************************************)
\* Connection::submit_command: the call-id handed out, the counter advanced
SubmitCommand(ok) ==
    /\ next_call_id' = IF ok THEN next_call_id + 1 ELSE next_call_id
    /\ UNCHANGED conn_terminated

\* the entry is filed under the connection's next call-id, not the returned one
SubmitExternalCommand_NextId(tx, at, ok) ==
    /\ SubmitCommand(ok)
    /\ pending_commands' =
         IF ok
         THEN MapInsert(pending_commands, next_call_id + 1,
                        [req |-> ExternalCommand(tx), at |-> at])
         ELSE pending_commands
    /\ tx_call' = IF ok THEN [tx_call EXCEPT ![tx] = next_call_id] ELSE tx_call

SubmitExternalCommand(tx, at, ok) ==
    /\ SubmitCommand(ok)
    /\ pending_commands' =
         IF ok
         THEN MapInsert(pending_commands, next_call_id,
                        [req |-> ExternalCommand(tx), at |-> at])
         ELSE pending_commands
    /\ tx_call' = IF ok THEN [tx_call EXCEPT ![tx] = next_call_id] ELSE tx_call

SubmitInternalCommand(target_id, at, ok) ==
    /\ SubmitCommand(ok)
    /\ pending_commands' =
         IF ok
         THEN MapInsert(pending_commands, next_call_id,
                        [req |-> InternalCommand(target_id), at |-> at])
         ELSE pending_commands
    /\ UNCHANGED tx_call

\* the caller has checked ok: on Err the unwrap aborts the Handler
SubmitNavigation(id, at) ==
    /\ SubmitCommand(TRUE)
    /\ pending_commands' =
         MapInsert(pending_commands, next_call_id,
                   [req |-> Navigate(id), at |-> at])
    /\ UNCHANGED tx_call

\* serde_ok: whether serde_json::to_value(params) returned Ok
CreatePage(tx, serde_ok, ok) ==
    IF serde_ok
    THEN /\ SubmitCommand(ok)
         /\ IF ok
            THEN /\ pending_commands' =
                      MapInsert(pending_commands, next_call_id,
                                [req |-> CreateTarget(tx), at |-> clock])
                 /\ tx_call' = [tx_call EXCEPT ![tx] = next_call_id]
                 /\ UNCHANGED replies
            ELSE /\ replies' = Send(replies, tx, ErrOut("Submit"))
                 /\ UNCHANGED <<pending_commands, tx_call>>
    ELSE /\ replies' = Send(replies, tx, ErrOut("Serde"))
         /\ UNCHANGED <<pending_commands, next_call_id, conn_terminated, tx_call>>

(***************************************************************************)
(* poll_next, first loop: the inbound request channel.                     *)
(***************************************************************************)
\* HandlerMessage::Command(cmd); is_nav: the command's method is the navigate
\* method, which this loop does not look at
IntakeCommand ==
    /\ pc = "intake"
    /\ next_tx <= MaxTx
    /\ next_call_id < MaxCall
    /\ \E is_nav \in BOOLEAN, ok \in BOOLEAN :
         /\ SubmitExternalCommand(next_tx, now, ok)
         /\ pc' = IF ok THEN "intake" ELSE "panicked"
         /\ tx_kind' = [tx_kind EXCEPT ![next_tx] =
                                   IF is_nav THEN "handler_navigate"
                                             ELSE "handler_command"]
         /\ last' = [op |-> "intake_command"]
    /\ next_tx' = next_tx + 1
    /\ UNCHANGED <<target_ids, targets, navigations, sessions, next_navigation_id,
                   now, n, cur, clock, http, visit, replies, created, attached, responded, overdue>>

\* HandlerMessage::CreatePage(params, tx)
IntakeCreatePage ==
    /\ pc = "intake"
    /\ next_tx <= MaxTx
    /\ next_call_id < MaxCall
    /\ \E serde_ok \in BOOLEAN, ok \in BOOLEAN :
         /\ CreatePage(next_tx, serde_ok, ok)
         /\ last' = [op |-> "create_page"]
    /\ tx_kind' = [tx_kind EXCEPT ![next_tx] = "create_page"]
    /\ next_tx' = next_tx + 1
    /\ UNCHANGED <<target_ids, targets, navigations, sessions, next_navigation_id,
                   pc, now, n, cur, clock, http, visit, created, attached, responded, overdue>>

\* Target::get_or_create_page: a target hands out a page once it has a session
GetOrCreatePage(target) == IsSome(target.session_id)

\* HandlerMessage::GetPages(tx)
IntakeGetPages ==
    /\ pc = "intake"
    /\ next_tx <= MaxTx
    /\ replies' = Send(replies, next_tx,
                       PagesOut({t \in DOMAIN targets : GetOrCreatePage(targets[t])}))
    /\ last' = [op |-> "get_pages"]
    /\ tx_kind' = [tx_kind EXCEPT ![next_tx] = "get_pages"]
    /\ next_tx' = next_tx + 1
    /\ UNCHANGED <<handler, created, attached, responded, tx_call, overdue, pc, now, n,
                   cur,
                   clock, http, visit>>

\* HandlerMessage::Subscribe
IntakeSubscribe ==
    /\ pc = "intake"
    /\ last' = [op |-> "subscribe"]
    /\ UNCHANGED <<handler, history, pc, now, n, cur, clock, http, visit, next_tx, replies>>

\* the channel yields nothing more: on to the loop over 0 .. target_ids.len()
IntakeDone ==
    /\ pc = "intake"
    /\ pc' = "targets"
    /\ n' = Len(target_ids) - 1
    /\ last' = [op |-> "intake_done"]
    /\ UNCHANGED <<handler, history, now, cur, clock, http, next_tx, replies>>
    /\ visit' = [start |-> target_ids, registry |-> DOMAIN targets,
                 detached |-> <<>>, inserted |-> <<>>]

(***************************************************************************)
(* The navigation coordinator.  Both methods are actions on navigations    *)
(* and replies.                                                            *)
(***************************************************************************)
\* the reply is sent as soon as the command response arrives
OnNavigationResponse_Eager(id, resp) ==
    IF id \in DOMAIN navigations
    THEN /\ replies' = Send(replies, navigations[id].tx, OkResp(resp))
         /\ navigations' = MapRemove(navigations, id)
    ELSE UNCHANGED <<navigations, replies>>

OnNavigationResponse(id, resp) ==
    IF id \in DOMAIN navigations
    THEN LET nav == navigations[id] IN
         IF nav.navigated
         THEN /\ replies' = Send(replies, nav.tx, OkResp(resp))
              /\ navigations' = MapRemove(navigations, id)
         ELSE /\ navigations' = MapInsert(MapRemove(navigations, id), id,
                                          [nav EXCEPT !.response = Some(resp)])
              /\ UNCHANGED replies
    ELSE UNCHANGED <<navigations, replies>>

\* an error after the command response completes the navigation with the
\* stored response
OnNavigationLifecycleCompleted_ResponseWins(res_ok, id) ==
    IF id \in DOMAIN navigations
    THEN LET nav == navigations[id] IN
         IF IsSome(nav.response)
         THEN /\ replies' = Send(replies, nav.tx, OkResp(Unwrap(nav.response)))
              /\ navigations' = MapRemove(navigations, id)
         ELSE IF res_ok
              THEN /\ navigations' = MapInsert(MapRemove(navigations, id), id,
                                               [nav EXCEPT !.navigated = TRUE])
                   /\ UNCHANGED replies
              ELSE /\ replies' = Send(replies, nav.tx, ErrOut("Navigation"))
                   /\ navigations' = MapRemove(navigations, id)
    ELSE UNCHANGED <<navigations, replies>>

\* res_ok: the result is Ok(NavigationOk), else Err(NavigationError); id is
\* the navigation-id the result carries
OnNavigationLifecycleCompleted(res_ok, id) ==
    IF id \in DOMAIN navigations
    THEN LET nav == navigations[id] IN
         IF res_ok
         THEN IF IsSome(nav.response)
              THEN /\ replies' = Send(replies, nav.tx, OkResp(Unwrap(nav.response)))
                   /\ navigations' = MapRemove(navigations, id)
              ELSE /\ navigations' = MapInsert(MapRemove(navigations, id), id,
                                               [nav EXCEPT !.navigated = TRUE])
                   /\ UNCHANGED replies
         ELSE /\ replies' = Send(replies, nav.tx, ErrOut("Navigation"))
              /\ navigations' = MapRemove(navigations, id)
    ELSE UNCHANGED <<navigations, replies>>

(***************************************************************************)
(* poll_next, second loop: the targets.                                    *)
(***************************************************************************)
\* the id is always taken from the front of the list
TargetNext_Front ==
    /\ pc = "targets"
    /\ cur = None
    /\ n >= 0
    /\ LET target_id == target_ids[1] IN
         /\ target_ids' = SwapRemove(target_ids, 0)
         /\ IF target_id \in DOMAIN targets
            THEN /\ cur' = Some([id |-> target_id, target |-> targets[target_id]])
                 /\ targets' = MapRemove(targets, target_id)
                 /\ UNCHANGED n
            ELSE /\ n' = n - 1
                 /\ UNCHANGED <<cur, targets>>
         /\ last' = [op |-> "target_next"]
    /\ UNCHANGED <<pending_commands, navigations, sessions, next_navigation_id,
                   next_call_id, conn_terminated, history, pc, now, clock, http, next_tx, replies>>
    /\ visit' = IF IsSome(cur')
                THEN [visit EXCEPT !.detached = Append(@, Unwrap(cur').id)]
                ELSE visit

\* swap_remove(n) and remove_entry: the id is taken off the list; its target,
\* when the registry has it, is detached and polled
TargetNext ==
    /\ pc = "targets"
    /\ cur = None
    /\ n >= 0
    /\ LET target_id == target_ids[n + 1] IN
         /\ target_ids' = SwapRemove(target_ids, n)
         /\ IF target_id \in DOMAIN targets
            THEN /\ cur' = Some([id |-> target_id, target |-> targets[target_id]])
                 /\ targets' = MapRemove(targets, target_id)
                 /\ UNCHANGED n
            ELSE /\ n' = n - 1
                 /\ UNCHANGED <<cur, targets>>
         /\ last' = [op |-> "target_next"]
    /\ UNCHANGED <<pending_commands, navigations, sessions, next_navigation_id,
                   next_call_id, conn_terminated, history, pc, now, clock, http, next_tx, replies>>
    /\ visit' = IF IsSome(cur')
                THEN [visit EXCEPT !.detached = Append(@, Unwrap(cur').id)]
                ELSE visit

\* the id goes back to the list, the target is not put back
TargetPollNone_Dropped ==
    /\ pc = "targets"
    /\ IsSome(cur)
    /\ target_ids' = Append(target_ids, Unwrap(cur).id)
    /\ cur' = None
    /\ n' = n - 1
    /\ last' = [op |-> "target_done"]
    /\ UNCHANGED <<pending_commands, targets, navigations, sessions,
                   next_navigation_id, next_call_id, conn_terminated, history, pc, now, clock, http,
                   next_tx, replies>>
    /\ visit' = [visit EXCEPT !.inserted = Append(@, Unwrap(cur).id)]

\* target.poll returned None: the target goes back to the registry and its id
\* to the end of the list
TargetPollNone ==
    /\ pc = "targets"
    /\ IsSome(cur)
    /\ targets' = MapInsert(targets, Unwrap(cur).id, Unwrap(cur).target)
    /\ target_ids' = Append(target_ids, Unwrap(cur).id)
    /\ cur' = None
    /\ n' = n - 1
    /\ last' = [op |-> "target_done"]
    /\ UNCHANGED <<pending_commands, navigations, sessions, next_navigation_id,
                   next_call_id, conn_terminated, history, pc, now, clock, http, next_tx, replies>>
    /\ visit' = [visit EXCEPT !.inserted = Append(@, Unwrap(cur).id)]

\* TargetEvent::Request(req)
TargetRequest ==
    /\ pc = "targets"
    /\ IsSome(cur)
    /\ next_call_id < MaxCall
    /\ \E ok \in BOOLEAN :
         /\ SubmitInternalCommand(Unwrap(cur).id, now, ok)
         /\ last' = [op |-> "target_request"]
    /\ UNCHANGED <<target_ids, targets, navigations, sessions, next_navigation_id,
                   created, attached, responded, tx_kind, overdue, pc, now, n, cur, clock, http, visit,
                   next_tx, replies>>

\* TargetEvent::RequestTimeout(_)
TargetRequestTimeout ==
    /\ pc = "targets"
    /\ IsSome(cur)
    /\ last' = [op |-> "target_request_timeout"]
    /\ UNCHANGED <<handler, history, pc, now, n, cur, clock, http, visit, next_tx, replies>>

\* Handler::next_navigation_id: the id handed out is the counter's value, the
\* counter wraps
NextNavigationId == (next_navigation_id + 1) % NavIdSpace

\* every command is submitted as an external command
OnTargetMessage_NoNavigation(tx, is_nav, ok) ==
    /\ SubmitExternalCommand(tx, now, ok)
    /\ UNCHANGED <<cur, navigations, next_navigation_id>>

\* on_target_message(target, TargetMessage::Command(msg), now), msg carrying
\* the reply channel tx; an action on cur, navigations, next_navigation_id and
\* what SubmitExternalCommand sets
OnTargetMessage(tx, is_nav, ok) ==
    IF is_nav
    THEN /\ next_navigation_id' = NextNavigationId
         /\ cur' = Some([Unwrap(cur) EXCEPT
                            !.target.navs = @ \cup {next_navigation_id}])
         /\ navigations' = MapInsert(navigations, next_navigation_id,
                                     NavigationInProgress(tx))
         /\ UNCHANGED <<pending_commands, next_call_id, conn_terminated, tx_call>>
    ELSE /\ SubmitExternalCommand(tx, now, ok)
         /\ UNCHANGED <<cur, navigations, next_navigation_id>>

\* TargetEvent::Message(msg), in a run of at most max_tx reply channels and
\* max_nav navigations
TargetMessageWithin(max_tx, max_nav) ==
    /\ pc = "targets"
    /\ IsSome(cur)
    /\ next_tx <= max_tx
    /\ \E is_nav \in BOOLEAN, ok \in BOOLEAN :
         /\ IF is_nav
            THEN Cardinality({t \in Txs : tx_kind[t] = "target_navigate"}) < max_nav
                 /\ ok
            ELSE next_call_id < MaxCall
         /\ OnTargetMessage(next_tx, is_nav, ok)
         /\ tx_kind' = [tx_kind EXCEPT ![next_tx] =
                                   IF is_nav THEN "target_navigate"
                                             ELSE "target_command"]
         /\ last' = [op |-> "target_message"]
    /\ next_tx' = next_tx + 1
    /\ UNCHANGED <<target_ids, targets, sessions, created, attached, responded,
                   overdue, pc, now, n, clock, http, visit, replies>>

TargetMessage == TargetMessageWithin(MaxTx, MaxNav)

\* TargetEvent::NavigationRequest(id, req): submit_navigation unwraps
TargetNavigationRequest ==
    /\ pc = "targets"
    /\ IsSome(cur)
    /\ next_call_id < MaxCall
    /\ \E id \in Unwrap(cur).target.navs, ok \in BOOLEAN :
         /\ IF ok
            THEN SubmitNavigation(id, now) /\ UNCHANGED pc
            ELSE pc' = "panicked"
                 /\ UNCHANGED <<pending_commands, next_call_id, conn_terminated, tx_call>>
         /\ last' = [op |-> "navigation_request"]
    /\ UNCHANGED <<target_ids, targets, navigations, sessions, next_navigation_id,
                   created, attached, responded, tx_kind, overdue, now, n, cur, clock, http, visit,
                   next_tx, replies>>

\* TargetEvent::NavigationResult(res)
TargetNavigationResult ==
    /\ pc = "targets"
    /\ IsSome(cur)
    /\ \E id \in Unwrap(cur).target.navs, res_ok \in BOOLEAN :
         /\ OnNavigationLifecycleCompleted(res_ok, id)
         /\ last' = [op |-> "lifecycle", id |-> id, res_ok |-> res_ok]
    /\ UNCHANGED <<pending_commands, target_ids, targets, sessions,
                   next_navigation_id, next_call_id, conn_terminated, history, pc, now, n, cur,
                   clock, http, visit, next_tx>>

\* inside target.poll: a target that has its session and an initiator sends
\* its page to the initiator
TargetInitiated ==
    /\ pc = "targets"
    /\ IsSome(cur)
    /\ IsSome(Unwrap(cur).target.initiator)
    /\ IsSome(Unwrap(cur).target.session_id)
    /\ replies' = Send(replies, Unwrap(Unwrap(cur).target.initiator),
                       OkPage(Unwrap(cur).id))
    /\ cur' = Some([Unwrap(cur) EXCEPT !.target.initiator = None])
    /\ last' = [op |-> "initiated"]
    /\ UNCHANGED <<handler, history, pc, now, n, clock, http, visit, next_tx>>

\* the loop over the targets has ended
TargetsDone ==
    /\ pc = "targets"
    /\ cur = None
    /\ n < 0
    /\ pc' = "conn"
    /\ last' = [op |-> "targets_done"]
    /\ UNCHANGED <<handler, history, now, n, cur, clock, http, next_tx, replies>>
    /\ visit' = NoVisit

(***************************************************************************)
(* Response dispatch.                                                      *)
(***************************************************************************)
\* Target::set_initiator(tx)
SetInitiator(target, tx) == [target EXCEPT !.initiator = Some(tx)]

\* Target::on_response(resp): the target has the response
TargetOnResponse(target, resp) == [target EXCEPT !.responses = @ \cup {resp.id}]

\* a response whose call-id is not pending empties the pending table
OnResponse_UnknownResets(resp) ==
    IF resp.id \in DOMAIN pending_commands
    THEN LET req == pending_commands[resp.id].req IN
         /\ pending_commands' = MapRemove(pending_commands, resp.id)
         /\ CASE req.kind = "CreateTarget" ->
                   LET r == ToCommandResponse(resp) IN
                   IF r.ok
                   THEN IF r.target_id \in DOMAIN targets
                        THEN /\ targets' = [targets EXCEPT ![r.target_id] =
                                                SetInitiator(@, req.tx)]
                             /\ UNCHANGED <<navigations, replies, pc>>
                        ELSE /\ pc' = "panicked"
                             /\ UNCHANGED <<targets, navigations, replies>>
                   ELSE /\ replies' = Send(replies, req.tx, ErrOut(r.err))
                        /\ UNCHANGED <<targets, navigations, pc>>
              [] req.kind = "Navigate" ->
                   /\ OnNavigationResponse(req.nav, resp)
                   /\ UNCHANGED <<targets, pc>>
              [] req.kind = "ExternalCommand" ->
                   /\ replies' = Send(replies, req.tx, OkResp(resp))
                   /\ UNCHANGED <<targets, navigations, pc>>
              [] req.kind = "InternalCommand" ->
                   /\ targets' = IF req.target \in DOMAIN targets
                                 THEN [targets EXCEPT ![req.target] =
                                          TargetOnResponse(@, resp)]
                                 ELSE targets
                   /\ UNCHANGED <<navigations, replies, pc>>
    ELSE /\ pending_commands' = EmptyMap
         /\ UNCHANGED <<targets, navigations, replies, pc>>

\* a response for a target that is gone aborts the Handler, as a createTarget
\* response does
OnResponse_InternalPanics(resp) ==
    IF resp.id \in DOMAIN pending_commands
    THEN LET req == pending_commands[resp.id].req IN
         /\ pending_commands' = MapRemove(pending_commands, resp.id)
         /\ CASE req.kind = "CreateTarget" ->
                   LET r == ToCommandResponse(resp) IN
                   IF r.ok
                   THEN IF r.target_id \in DOMAIN targets
                        THEN /\ targets' = [targets EXCEPT ![r.target_id] =
                                                SetInitiator(@, req.tx)]
                             /\ UNCHANGED <<navigations, replies, pc>>
                        ELSE /\ pc' = "panicked"
                             /\ UNCHANGED <<targets, navigations, replies>>
                   ELSE /\ replies' = Send(replies, req.tx, ErrOut(r.err))
                        /\ UNCHANGED <<targets, navigations, pc>>
              [] req.kind = "Navigate" ->
                   /\ OnNavigationResponse(req.nav, resp)
                   /\ UNCHANGED <<targets, pc>>
              [] req.kind = "ExternalCommand" ->
                   /\ replies' = Send(replies, req.tx, OkResp(resp))
                   /\ UNCHANGED <<targets, navigations, pc>>
              [] req.kind = "InternalCommand" ->
                   IF req.target \in DOMAIN targets
                   THEN /\ targets' = [targets EXCEPT ![req.target] =
                                           TargetOnResponse(@, resp)]
                        /\ UNCHANGED <<navigations, replies, pc>>
                   ELSE /\ pc' = "panicked"
                        /\ UNCHANGED <<targets, navigations, replies>>
    ELSE UNCHANGED <<pending_commands, targets, navigations, replies, pc>>

\* on_response(resp): an action on pending_commands, targets, navigations,
\* replies and pc (a panic ends the Handler)
OnResponse(resp) ==
    IF resp.id \in DOMAIN pending_commands
    THEN LET req == pending_commands[resp.id].req IN
         /\ pending_commands' = MapRemove(pending_commands, resp.id)
         /\ CASE req.kind = "CreateTarget" ->
                   LET r == ToCommandResponse(resp) IN
                   IF r.ok
                   THEN IF r.target_id \in DOMAIN targets
                        THEN /\ targets' = [targets EXCEPT ![r.target_id] =
                                                SetInitiator(@, req.tx)]
                             /\ UNCHANGED <<navigations, replies, pc>>
                        ELSE /\ pc' = "panicked"
                             /\ UNCHANGED <<targets, navigations, replies>>
                   ELSE /\ replies' = Send(replies, req.tx, ErrOut(r.err))
                        /\ UNCHANGED <<targets, navigations, pc>>
              [] req.kind = "Navigate" ->
                   /\ OnNavigationResponse(req.nav, resp)
                   /\ UNCHANGED <<targets, pc>>
              [] req.kind = "ExternalCommand" ->
                   /\ replies' = Send(replies, req.tx, OkResp(resp))
                   /\ UNCHANGED <<targets, navigations, pc>>
              [] req.kind = "InternalCommand" ->
                   /\ targets' = IF req.target \in DOMAIN targets
                                 THEN [targets EXCEPT ![req.target] =
                                          TargetOnResponse(@, resp)]
                                 ELSE targets
                   /\ UNCHANGED <<navigations, replies, pc>>
    ELSE UNCHANGED <<pending_commands, targets, navigations, replies, pc>>

(***************************************************************************)
(* Event dispatch.                                                         *)
(***************************************************************************)
\* CdpEventMessage: sid is the session the message came on, tag the event,
\* target and session what the event's parameters name
Events ==
    [sid : {None} \cup {Some(x) : x \in SessionIds},
     tag : {"TargetCreated", "TargetDestroyed"},
     target : TargetIds, session : {"none"}]
    \cup
    [sid : {None} \cup {Some(x) : x \in SessionIds},
     tag : {"AttachedToTarget"},
     target : TargetIds, session : SessionIds]
    \cup
    [sid : {None} \cup {Some(x) : x \in SessionIds},
     tag : {"DetachedFromTarget"},
     target : {"none"}, session : SessionIds]
    \cup
    [sid : {None} \cup {Some(x) : x \in SessionIds},
     tag : {"Other"},
     target : {"none"}, session : {"none"}]

\* Session::new(session_id, type, target_id)
Session(session_id, target_id) == [session_id |-> session_id, target_id |-> target_id]

\* an action on target_ids and targets
OnTargetCreated(event) ==
    /\ target_ids' = Append(target_ids, event.target)
    /\ targets' = MapInsert(targets, event.target, NewTarget)

\* an action on targets and sessions: the session is built and the target told
\* its id; the session table is not written
OnAttachedToTarget(event) ==
    LET session == Session(event.session, event.target) IN
    /\ targets' = IF session.target_id \in DOMAIN targets
                  THEN [targets EXCEPT ![session.target_id].session_id =
                                           Some(session.session_id)]
                  ELSE targets
    /\ UNCHANGED sessions

\* an action on targets and sessions; target.session_id() hands out a copy of
\* the slot (Option<&SessionId>), so take() empties the copy, not the slot
OnDetachedFromTarget(event) ==
    /\ sessions' = IF event.session \in DOMAIN sessions
                   THEN MapRemove(sessions, event.session)
                   ELSE sessions
    /\ UNCHANGED targets

\* an action on targets and sessions
OnTargetDestroyed(event) ==
    IF event.target \in DOMAIN targets
    THEN LET target == targets[event.target] IN
         /\ targets' = MapRemove(targets, event.target)
         /\ sessions' = IF IsSome(target.session_id)
                           /\ Unwrap(target.session_id) \in DOMAIN sessions
                        THEN MapRemove(sessions, Unwrap(target.session_id))
                        ELSE sessions
    ELSE UNCHANGED <<targets, sessions>>

\* the event goes to the target of its session when the session table and the
\* registry know them
Routed(event) ==
    /\ IsSome(event.sid)
    /\ Unwrap(event.sid) \in DOMAIN sessions
    /\ sessions[Unwrap(event.sid)].target_id \in DOMAIN targets

\* on_event(event): an action on target_ids, targets and sessions
OnEvent(event) ==
    IF Routed(event)
    THEN \* target.on_event(event)
         UNCHANGED <<target_ids, targets, sessions>>
    ELSE CASE event.tag = "TargetCreated" ->
                /\ OnTargetCreated(event)
                /\ UNCHANGED sessions
           [] event.tag = "AttachedToTarget" ->
                /\ OnAttachedToTarget(event)
                /\ UNCHANGED target_ids
           [] event.tag = "TargetDestroyed" ->
                /\ OnTargetDestroyed(event)
                /\ UNCHANGED target_ids
           [] event.tag = "DetachedFromTarget" ->
                /\ OnDetachedFromTarget(event)
                /\ UNCHANGED target_ids
           [] OTHER -> UNCHANGED <<target_ids, targets, sessions>>

(***************************************************************************)
(* poll_next, third loop: the connection.                                  *)
(***************************************************************************)
\* Ok(Message::Response(resp)): the browser answers a command that was sent
ConnResponse(rs) ==
    /\ pc = "conn"
    /\ ~conn_terminated
    /\ \E resp \in rs :
         /\ resp.id < next_call_id
         /\ OnResponse(resp)
         /\ responded' = responded \cup {resp.id}
         /\ last' = [op |-> "response", resp |-> resp]
    /\ UNCHANGED <<target_ids, sessions, next_navigation_id, next_call_id, conn_terminated,
                   created, attached, tx_call, tx_kind, overdue, now, n, cur,
                   clock, http, visit, next_tx>>

\* Ok(Message::Event(ev))
ConnEvent(es) ==
    /\ pc = "conn"
    /\ ~conn_terminated
    /\ \E event \in es :
         /\ event.tag = "TargetCreated" => Len(target_ids) < MaxTargetIds
         /\ OnEvent(event)
         /\ created' = CASE event.tag = "TargetCreated" -> created \cup {event.target}
                         [] event.tag = "TargetDestroyed" -> created \ {event.target}
                         [] OTHER -> created
         /\ attached' = CASE event.tag = "AttachedToTarget" ->
                               attached \cup {event.session}
                          [] event.tag = "DetachedFromTarget" ->
                               attached \ {event.session}
                          [] OTHER -> attached
         /\ last' = [op |-> "event", tag |-> event.tag, sid |-> event.sid,
                      session |-> event.session]
    /\ UNCHANGED <<pending_commands, navigations, next_navigation_id,
                   next_call_id, conn_terminated, responded, tx_call, tx_kind, overdue, pc, now, n,
                   cur, clock, http, visit, next_tx, replies>>

\* the error is dropped and the loop goes on
ConnError_Swallowed ==
    /\ pc = "conn"
    /\ ~conn_terminated
    /\ conn_terminated' = TRUE
    /\ last' = [op |-> "conn_err_dropped"]
    /\ UNCHANGED <<pending_commands, target_ids, targets, navigations, sessions,
                   next_navigation_id, next_call_id, history, pc, now, n, cur,
                   clock, http, visit, next_tx, replies>>

\* Err(err): poll_next returns Ready(Some(Err(err))); the connection's
\* sequence ends with the error it yields
ConnError ==
    /\ pc = "conn"
    /\ ~conn_terminated
    /\ conn_terminated' = TRUE
    /\ pc' = "idle"
    /\ last' = [op |-> "yield_err"]
    /\ UNCHANGED <<pending_commands, target_ids, targets, navigations, sessions,
                   next_navigation_id, next_call_id, history, now, n, cur,
                   clock, http, visit, next_tx, replies>>

\* the connection yields nothing more
ConnDone ==
    /\ pc = "conn"
    /\ pc' = "evict"
    /\ last' = [op |-> "conn_done"]
    /\ UNCHANGED <<handler, history, now, n, cur, clock, http, visit, next_tx, replies>>

(***************************************************************************)
(* poll_next, the periodic job, and the return of Poll::Pending.           *)
(***************************************************************************)
\* the pending commands older than the timeout at `now`
Expired == {c \in DOMAIN pending_commands :
                now - pending_commands[c].at > REQUEST_TIMEOUT}

\* ready: evict_command_timeout.is_ready(cx); the branch taken when it is
\* ready is empty
PollEvict ==
    /\ pc = "evict"
    /\ \E ready \in BOOLEAN :
         /\ overdue' = IF ready THEN Expired ELSE overdue \cap DOMAIN pending_commands
         /\ last' = [op |-> "pending", ready |-> ready]
    /\ pc' = "idle"
    /\ UNCHANGED <<handler, created, attached, responded, tx_call, tx_kind, now,
                   n, cur, clock, http, visit, next_tx, replies>>

(***************************************************************************)
(* HttpFuture (src/src/handler/httpfuture.rs): a command future behind a   *)
(* Fuse and a navigation future, awaited by one task.  A future that is    *)
(* polled while pending keeps the task's waker and wakes the task when it  *)
(* completes; the executor polls the task when it has been woken.          *)
(***************************************************************************)
\* what the command future resolves to: Ok(response) or Err(error)
CommandOutcomes ==
    [tag : {"Ok"}, val : {"r1", "r2"}] \cup [tag : {"Err"}, val : {"Chrome", "Timeout"}]
\* what the navigation future, and with it the HttpFuture, resolves to:
\* Ok(Some(request)), Ok(None) or Err(error)
NavigationOutcomes ==
    [tag : {"Ok"}, val : {"request", "no_request"}] \cup [tag : {"Err"}, val : {"Navigation"}]

\* everything but the HttpFuture and its task
handler_side == <<handler, history, pc, now, n, cur, clock, next_tx, replies, last,
                  visit>>

\* the command's reply arrives: the command future becomes ready and wakes
\* the task if it holds its waker
CommandCompletes ==
    /\ command.out = None
    /\ \E o \in CommandOutcomes : command' = [command EXCEPT !.out = Some(o)]
    /\ task' = [task EXCEPT !.woken = @ \/ command.waker]
    /\ UNCHANGED <<navigation, handler_side>>

\* the navigation finishes: the navigation future becomes ready and wakes the
\* task if it holds its waker
NavigationCompletes ==
    /\ navigation.out = None
    /\ \E o \in NavigationOutcomes : navigation' = [navigation EXCEPT !.out = Some(o)]
    /\ task' = [task EXCEPT !.woken = @ \/ navigation.waker]
    /\ UNCHANGED <<command, handler_side>>

\* the task is woken by something else it awaits
SpuriousWake ==
    /\ task.result = None
    /\ ~task.woken
    /\ task.spurious < MaxSpurious
    /\ task' = [task EXCEPT !.woken = TRUE, !.spurious = @ + 1]
    /\ UNCHANGED <<command, navigation, handler_side>>

\* NavigationFuture::poll
PollNavigation ==
    /\ navigation' = [navigation EXCEPT !.polls = @ + 1,
                                        !.waker = (navigation.out = None)]
    /\ task' = [task EXCEPT !.woken = FALSE, !.polls = @ + 1,
                            !.result = navigation.out]

\* the navigation future is polled as soon as it is ready, whatever the
\* command future says
HttpPoll_NavigationFirst ==
    /\ task.woken
    /\ task.result = None
    /\ IF command.terminated \/ IsSome(navigation.out)
       THEN PollNavigation /\ UNCHANGED command
       ELSE /\ IF IsSome(command.out)
               THEN LET o == Unwrap(command.out) IN
                    /\ command' = [command EXCEPT !.terminated = TRUE]
                    /\ task' = [task EXCEPT !.polls = @ + 1,
                                            !.woken = (o.tag = "Ok"),
                                            !.result = IF o.tag = "Ok" THEN None
                                                                       ELSE Some(o)]
               ELSE /\ command' = [command EXCEPT !.waker = TRUE]
                    /\ task' = [task EXCEPT !.polls = @ + 1, !.woken = FALSE]
            /\ UNCHANGED navigation
    /\ UNCHANGED handler_side

\* an error of the command future is passed over like a response
HttpPoll_ErrIgnored ==
    /\ task.woken
    /\ task.result = None
    /\ IF command.terminated
       THEN PollNavigation /\ UNCHANGED command
       ELSE /\ IF IsSome(command.out)
               THEN /\ command' = [command EXCEPT !.terminated = TRUE]
                    /\ task' = [task EXCEPT !.polls = @ + 1, !.woken = TRUE]
               ELSE /\ command' = [command EXCEPT !.waker = TRUE]
                    /\ task' = [task EXCEPT !.polls = @ + 1, !.woken = FALSE]
            /\ UNCHANGED navigation
    /\ UNCHANGED handler_side

\* Pending is returned after the command's response without waking the task
HttpPoll_NoWake ==
    /\ task.woken
    /\ task.result = None
    /\ IF command.terminated
       THEN PollNavigation /\ UNCHANGED command
       ELSE /\ IF IsSome(command.out)
               THEN LET o == Unwrap(command.out) IN
                    /\ command' = [command EXCEPT !.terminated = TRUE]
                    /\ task' = [task EXCEPT !.polls = @ + 1,
                                            !.woken = FALSE,
                                            !.result = IF o.tag = "Ok" THEN None
                                                                       ELSE Some(o)]
               ELSE /\ command' = [command EXCEPT !.waker = TRUE]
                    /\ task' = [task EXCEPT !.polls = @ + 1, !.woken = FALSE]
            /\ UNCHANGED navigation
    /\ UNCHANGED handler_side

\* HttpFuture::poll, run by the executor for a task that was woken and has
\* not finished.  Fuse::poll ends the Fuse when its future is ready; on
\* Ready(Ok(_)) the task wakes itself and Pending is returned, on Ready(Err(e))
\* Ready(Err(e)) is returned.
HttpPoll ==
    /\ task.woken
    /\ task.result = None
    /\ IF command.terminated
       THEN PollNavigation /\ UNCHANGED command
       ELSE /\ IF IsSome(command.out)
               THEN LET o == Unwrap(command.out) IN
                    /\ command' = [command EXCEPT !.terminated = TRUE]
                    /\ task' = [task EXCEPT !.polls = @ + 1,
                                            !.woken = (o.tag = "Ok"),
                                            !.result = IF o.tag = "Ok" THEN None
                                                                       ELSE Some(o)]
               ELSE /\ command' = [command EXCEPT !.waker = TRUE]
                    /\ task' = [task EXCEPT !.polls = @ + 1, !.woken = FALSE]
            /\ UNCHANGED navigation
    /\ UNCHANGED handler_side

Next ==
    \/ AdvanceClock
    \/ PollStart
    \/ IntakeCommand
    \/ IntakeCreatePage
    \/ IntakeGetPages
    \/ IntakeSubscribe
    \/ IntakeDone
    \/ TargetNext
    \/ TargetRequest
    \/ TargetRequestTimeout
    \/ TargetMessage
    \/ TargetNavigationRequest
    \/ TargetNavigationResult
    \/ TargetInitiated
    \/ TargetPollNone
    \/ TargetsDone
    \/ ConnResponse(Responses)
    \/ ConnEvent(Events)
    \/ ConnError
    \/ ConnDone
    \/ PollEvict
    \/ CommandCompletes
    \/ NavigationCompletes
    \/ SpuriousWake
    \/ HttpPoll

Spec == Init /\ [][Next]_vars

(***************************************************************************)
(* Commands and navigations through one target.                            *)
(***************************************************************************)
\* responses whose payload names no target
PlainResponses == {r \in Responses : r.target = "none" /\ r.kind # "empty"}
\* the browser announces target T1, once
CreatedEvents == {e \in Events : e.tag = "TargetCreated" /\ e.target = "T1"
                                    /\ e.sid = None /\ "T1" \notin created}
\* the browser's events about target T1 and its session
FirstTargetEvents == {e \in Events : e.target \in {"T1", "none"} /\ e.tag # "Other"
                                        /\ e.sid = None}

NextNavigation ==
    \/ PollStart
    \/ IntakeCommand
    \/ IntakeDone
    \/ TargetNext
    \/ TargetRequest
    \/ TargetMessage
    \/ TargetNavigationRequest
    \/ TargetNavigationResult
    \/ TargetPollNone
    \/ TargetsDone
    \/ ConnResponse(PlainResponses)
    \/ ConnEvent(CreatedEvents)
    \/ ConnDone
    \/ PollEvict

SpecNavigation == Init /\ [][NextNavigation]_vars

(***************************************************************************)
(* Page creation: CreatePage, the createTarget response and the events of  *)
(* the created target.                                                     *)
(***************************************************************************)
NextCreatePage ==
    \/ PollStart
    \/ IntakeCreatePage
    \/ IntakeDone
    \/ TargetNext
    \/ TargetInitiated
    \/ TargetPollNone
    \/ TargetsDone
    \/ ConnResponse(Responses)
    \/ ConnEvent(FirstTargetEvents)
    \/ ConnError
    \/ ConnDone
    \/ PollEvict

SpecCreatePage == Init /\ [][NextCreatePage]_vars

(***************************************************************************)
(* The target registry and the session table under the browser's events.   *)
(***************************************************************************)
NextRegistry ==
    \/ PollStart
    \/ IntakeSubscribe
    \/ IntakeDone
    \/ TargetNext
    \/ TargetRequest
    \/ TargetRequestTimeout
    \/ TargetPollNone
    \/ TargetsDone
    \/ ConnEvent(Events)
    \/ ConnError
    \/ ConnDone
    \/ PollEvict

SpecRegistry == Init /\ [][NextRegistry]_vars

(***************************************************************************)
(* Internal commands of the targets and their responses, while targets     *)
(* come and go.                                                            *)
(***************************************************************************)
\* the browser creates and destroys targets
LifeEvents == {e \in Events : e.tag \in {"TargetCreated", "TargetDestroyed"}
                                 /\ e.sid = None}

NextInternal ==
    \/ PollStart
    \/ IntakeDone
    \/ TargetNext
    \/ TargetRequest
    \/ TargetPollNone
    \/ TargetsDone
    \/ ConnResponse(PlainResponses)
    \/ ConnEvent(LifeEvents)
    \/ ConnDone
    \/ PollEvict

SpecInternal == Init /\ [][NextInternal]_vars

(***************************************************************************)
(* Pending commands while time passes.                                     *)
(***************************************************************************)
NextTimeout ==
    \/ AdvanceClock
    \/ PollStart
    \/ IntakeCommand
    \/ IntakeDone
    \/ TargetsDone
    \/ ConnResponse(PlainResponses)
    \/ ConnDone
    \/ PollEvict

SpecTimeout == Init /\ [][NextTimeout]_vars

(***************************************************************************)
(* The loop over the targets, with three targets that come and go.  The    *)
(* browser names a target with an id the Handler holds no trace of.        *)
(***************************************************************************)
LoopTargetIds == {"T1", "T2", "T3"}

\* the number of places of the list v that hold x
Count(v, x) == Cardinality({i \in 1 .. Len(v) : v[i] = x})

LoopEvents ==
    {e \in [sid : {None}, tag : {"TargetCreated", "TargetDestroyed"},
            target : LoopTargetIds, session : {"none"}] :
        e.tag = "TargetCreated" =>
            (e.target \notin DOMAIN targets /\ Count(target_ids, e.target) = 0)}

NextTargetLoop ==
    \/ PollStart
    \/ IntakeDone
    \/ TargetNext
    \/ TargetRequest
    \/ TargetRequestTimeout
    \/ TargetPollNone
    \/ TargetsDone
    \/ ConnEvent(LoopEvents)
    \/ ConnDone
    \/ PollEvict

SpecTargetLoop == Init /\ [][NextTargetLoop]_vars

(***************************************************************************)
(* Navigations through one target until the navigation-id counter has      *)
(* wrapped.                                                                *)
(***************************************************************************)
TargetMessageWrap == TargetMessageWithin(WrapTx, WrapTx)

NextWrap ==
    \/ PollStart
    \/ IntakeDone
    \/ TargetNext
    \/ TargetMessageWrap
    \/ TargetNavigationResult
    \/ TargetPollNone
    \/ TargetsDone
    \/ ConnEvent(CreatedEvents)
    \/ ConnDone
    \/ PollEvict

SpecWrap == Init /\ [][NextWrap]_vars

(***************************************************************************)
(* One HttpFuture and its task.  The executor polls a task that has been   *)
(* woken: weak fairness of HttpPoll.                                       *)
(***************************************************************************)
NextHttp ==
    \/ CommandCompletes
    \/ NavigationCompletes
    \/ SpuriousWake
    \/ HttpPoll

SpecHttp == Init /\ [][NextHttp]_vars

SpecHttpFair == Init /\ [][NextHttp]_vars /\ WF_vars(HttpPoll)

(***************************************************************************)
(* Properties.  A step is recognised by its label last' and judged on the  *)
(* state it starts from and the state it leads to.                         *)
(***************************************************************************)
\* the step dispatches a response to the navigate command of navigation id
IsNavigationResponse(id) ==
    /\ last'.op = "response"
    /\ last'.resp.id \in DOMAIN pending_commands
    /\ pending_commands[last'.resp.id].req = Navigate(id)

\* the step takes the lifecycle result res_ok of navigation id from a target
IsLifecycle(id, res_ok) ==
    /\ last'.op = "lifecycle"
    /\ last'.id = id
    /\ last'.res_ok = res_ok

NavIds == 0 .. (NavIdSpace - 1)

\* the reply channels that came with a navigation handed to a target
NavigationTxs == {t \in Txs : tx_kind[t] = "target_navigate"}

\* C1: a navigation of the table is answered Ok(response) exactly once, in the
\* step in which the second of command response and lifecycle Ok arrives, and
\* its entry goes with the reply; the signal that arrives first is stored in
\* the entry, which stays, and nothing is sent.
C1_ReplyOnSecondSignal ==
    [][/\ \A id \in DOMAIN navigations :
            LET nav == navigations[id] IN
            /\ IsNavigationResponse(id) =>
                 IF nav.navigated
                 THEN /\ replies' = Send(replies, nav.tx, OkResp(last'.resp))
                      /\ id \notin DOMAIN navigations'
                 ELSE /\ replies' = replies
                      /\ id \in DOMAIN navigations'
                      /\ navigations'[id] = [nav EXCEPT !.response = Some(last'.resp)]
            /\ IsLifecycle(id, TRUE) =>
                 IF IsSome(nav.response)
                 THEN /\ replies' = Send(replies, nav.tx, OkResp(Unwrap(nav.response)))
                      /\ id \notin DOMAIN navigations'
                 ELSE /\ replies' = replies
                      /\ id \in DOMAIN navigations'
                      /\ navigations'[id] = [nav EXCEPT !.navigated = TRUE]
       /\ \A t \in NavigationTxs :
            /\ Len(replies'[t]) <= 1
            /\ (replies'[t] # replies[t] /\ replies'[t][1].tag = "Ok") =>
                 \E id \in DOMAIN navigations :
                    /\ navigations[id].tx = t
                    /\ \/ IsNavigationResponse(id) /\ navigations[id].navigated
                       \/ IsLifecycle(id, TRUE) /\ IsSome(navigations[id].response)
      ]_vars

\* C1 witness: the lifecycle came first, the command response second, and the
\* caller holds Ok(response)
C1_Witness ==
    /\ last.op = "response"
    /\ \E t \in NavigationTxs : replies[t] = <<OkResp(last.resp)>>
    /\ navigations = EmptyMap

\* C2: a lifecycle error for a navigation of the table sends Err on its reply
\* channel, with or without a stored response, and removes the entry; the
\* channel carries one outcome for good, and a command response or lifecycle
\* result for a navigation-id that has no entry sends nothing and makes none.
C2_LifecycleErrCloses ==
    [][/\ \A id \in DOMAIN navigations :
            IsLifecycle(id, FALSE) =>
                /\ replies' = Send(replies, navigations[id].tx, ErrOut("Navigation"))
                /\ id \notin DOMAIN navigations'
       /\ \A id \in NavIds \ DOMAIN navigations :
            (IsNavigationResponse(id) \/ IsLifecycle(id, TRUE) \/ IsLifecycle(id, FALSE))
                => /\ replies' = replies
                   /\ navigations' = navigations
       /\ \A t \in NavigationTxs :
            /\ Len(replies'[t]) <= 1
            /\ replies[t] # <<>> => replies'[t] = replies[t]
      ]_vars

\* C2 witness: the lifecycle error has answered the caller and removed the
\* entry while the navigate command is still awaiting its response
C2_Witness ==
    \E t \in NavigationTxs, c \in DOMAIN pending_commands :
        /\ replies[t] = <<ErrOut("Navigation")>>
        /\ pending_commands[c].req.kind = "Navigate"
        /\ pending_commands[c].req.nav \notin DOMAIN navigations

\* the reply channels of commands submitted as external commands
ExternalTxs == {t \in Txs : /\ tx_kind[t] \in {"handler_command", "handler_navigate",
                                               "target_command"}
                            /\ tx_call[t] # -1}

\* C3: whatever the order of submissions and responses, the reply channel of
\* an external command carries nothing while its response is outstanding and
\* exactly the response with its own call-id once that response has been
\* dispatched, and no call-id whose response has been dispatched is pending.
C3_ExternalCommandCorrelation ==
    /\ \A t \in ExternalTxs :
         LET c == tx_call[t] IN
         IF c \in responded
         THEN /\ c \notin DOMAIN pending_commands
              /\ Len(replies[t]) = 1
              /\ replies[t][1].tag = "Ok"
              /\ IsSome(replies[t][1].resp)
              /\ Unwrap(replies[t][1].resp).id = c
         ELSE /\ replies[t] = <<>>
              /\ c \in DOMAIN pending_commands
              /\ pending_commands[c].req = ExternalCommand(t)
    /\ \A t1, t2 \in ExternalTxs : t1 # t2 => tx_call[t1] # tx_call[t2]
    /\ responded \cap DOMAIN pending_commands = {}

\* C3 witness: of two external commands the one submitted later has been
\* answered and the earlier one is still pending
C3_Witness ==
    \E t1, t2 \in ExternalTxs :
        /\ tx_call[t1] < tx_call[t2]
        /\ replies[t1] = <<>>
        /\ replies[t2] # <<>>
        /\ tx_call[t1] \in DOMAIN pending_commands

\* the step handles the command of reply channel t as a navigation: it submits
\* no command for it but records a NavigationInProgress under a new
\* navigation-id, and it answers it only when both signals are in, or on a
\* lifecycle error
AsNavigation(t) ==
    /\ tx_call'[t] = -1
    /\ (tx_kind[t] = "unused" /\ tx_kind'[t] # "unused") =>
         /\ navigations' = MapInsert(navigations, next_navigation_id,
                                     NavigationInProgress(t))
         /\ next_navigation_id' # next_navigation_id
    /\ replies'[t] # replies[t] =>
         \E id \in DOMAIN navigations :
            /\ navigations[id].tx = t
            /\ \/ IsNavigationResponse(id) /\ navigations[id].navigated
               \/ IsLifecycle(id, TRUE) /\ IsSome(navigations[id].response)
               \/ IsLifecycle(id, FALSE)

\* the step handles the command of reply channel t as an external command: a
\* submitted command is pending under its call-id with t, no navigation is
\* recorded, and t is answered with the raw response to that call-id
AsExternal(t) ==
    /\ (tx_kind[t] = "unused" /\ tx_kind'[t] # "unused") =>
         /\ navigations' = navigations
         /\ tx_call'[t] # -1 =>
              /\ tx_call'[t] \in DOMAIN pending_commands'
              /\ pending_commands'[tx_call'[t]].req = ExternalCommand(t)
    /\ replies'[t] # replies[t] =>
         /\ last'.op = "response"
         /\ last'.resp.id = tx_call[t]
         /\ replies'[t] = <<OkResp(last'.resp)>>

\* C5 as claimed: every Command message whose method is navigate, taken from
\* the inbound channel or forwarded by a target, is handled as a navigation,
\* every other Command message as an external command.
C5_EveryNavigateCommandJoins ==
    [][\A t \in Txs :
          /\ tx_kind'[t] \in {"handler_navigate", "target_navigate"} => AsNavigation(t)
          /\ tx_kind'[t] \in {"handler_command", "target_command"} => AsExternal(t)
      ]_vars

\* C5, amended: a navigate command forwarded by a target is handled as a
\* navigation; a command that is not a navigation, and every Command message
\* taken from the inbound channel whatever its method, is handled as an
\* external command.
C5_TargetNavigateCommandJoins ==
    [][\A t \in Txs :
          /\ tx_kind'[t] = "target_navigate" => AsNavigation(t)
          /\ tx_kind'[t] \in {"handler_navigate", "handler_command", "target_command"}
                => AsExternal(t)
      ]_vars

\* C5 witness: a navigate command from the inbound channel has been answered
\* with the raw response, and one forwarded by a target with Ok after both
\* signals
C5_Witness ==
    \E t1, t2 \in Txs :
        /\ tx_kind[t1] = "handler_navigate"
        /\ Len(replies[t1]) = 1 /\ replies[t1][1].tag = "Ok"
        /\ tx_kind[t2] = "target_navigate"
        /\ Len(replies[t2]) = 1 /\ replies[t2][1].tag = "Ok"

\* C4: a pending command that was older than the timeout when the periodic job
\* fired is no longer pending when the next poll returns, and the caller of an
\* external command among them holds a timeout error.
C4_ExpiredEvictedByNextTick ==
    [][last'.op = "pending" =>
          \A c \in overdue \cap DOMAIN pending_commands :
             /\ c \notin DOMAIN pending_commands'
             /\ pending_commands[c].req.kind = "ExternalCommand" =>
                  replies'[pending_commands[c].req.tx] = <<ErrOut("Timeout")>>
      ]_vars

\* the step dispatches, to the CreatePage request of reply channel t, a
\* createTarget response that names target-id tid
IsCreateTargetResponse(t, tid) ==
    /\ last'.op = "response"
    /\ last'.resp.id \in DOMAIN pending_commands
    /\ pending_commands[last'.resp.id].req = CreateTarget(t)
    /\ ToCommandResponse(last'.resp).ok
    /\ ToCommandResponse(last'.resp).target_id = tid

\* C6: when the createTarget response naming T1 is dispatched before
\* TargetCreated(T1) has been received, the Handler keeps running and keeps
\* the reply channel for T1: the channel is not dropped, it becomes the
\* initiator of T1, and nothing but Ok(Page of T1) is ever sent on it.
C6_ResponseBeforeTargetCreated ==
    [][\A t \in Txs :
          /\ (IsCreateTargetResponse(t, "T1") /\ "T1" \notin created) =>
                /\ pc' # "panicked"
                /\ replies'[t] = <<>>
          /\ (tx_kind[t] = "create_page" /\ replies'[t] # replies[t]
                /\ tx_call[t] \in responded) =>
                replies'[t] = <<OkPage("T1")>>
      ]_vars

\* C7: a createTarget response that names a target-id the registry does not
\* have fails the CreatePage reply channel with an error, removes the pending
\* entry and leaves the Handler running.
C7_MissingTargetFailsReply ==
    [][\A t \in Txs, tid \in TargetIds :
          (IsCreateTargetResponse(t, tid) /\ tid \notin DOMAIN targets) =>
              /\ Len(replies'[t]) = 1
              /\ replies'[t][1].tag = "Err"
              /\ last'.resp.id \notin DOMAIN pending_commands'
              /\ pc' # "panicked"
      ]_vars

\* C8: the session table holds exactly the session-ids announced attached and
\* not detached since.
C8_SessionTableTracksAttachment ==
    DOMAIN sessions = attached

\* C9: between two polls, the target-ids list holds every key of the registry
\* once and nothing else.
C9_ListMatchesRegistry ==
    pc = "idle" =>
        \A t \in TargetIds :
            Count(target_ids, t) = IF t \in DOMAIN targets THEN 1 ELSE 0

\* C10: between two polls, the keys of the registry are exactly the target-ids
\* announced by TargetCreated and not destroyed since.
C10_RegistryTracksCreation ==
    pc = "idle" => DOMAIN targets = created

\* C10 witness: between two polls, T1 has been in the registry and polled (its
\* internal command is pending) and then destroyed, while T2 is registered
C10_Witness ==
    /\ pc = "idle"
    /\ created = {"T2"}
    /\ DOMAIN targets = {"T2"}
    /\ \E c \in DOMAIN pending_commands :
          pending_commands[c].req = InternalCommand("T1")

\* C11: dispatching a response whose call-id has no entry in the pending table
\* sends on no reply channel and leaves the pending table, the navigation
\* table, the target registry and the session table as they were.
C11_UnknownResponseIsDropped ==
    [][(last'.op = "response" /\ last'.resp.id \notin DOMAIN pending_commands) =>
          /\ replies' = replies
          /\ pending_commands' = pending_commands
          /\ navigations' = navigations
          /\ targets' = targets
          /\ sessions' = sessions
          /\ pc' = pc
      ]_vars

\* C11 witness: the response to an external command has been delivered a
\* second time, with another payload, while a command and a navigation are
\* pending; the caller holds the first delivery only
C11_Witness ==
    /\ last.op = "response"
    /\ last.resp.id \in responded
    /\ \E t \in ExternalTxs :
          /\ tx_call[t] = last.resp.id
          /\ Len(replies[t]) = 1
          /\ replies[t][1] # OkResp(last.resp)
    /\ pending_commands # EmptyMap
    /\ navigations # EmptyMap

IsFailedSubmission(t) ==
    /\ tx_kind[t] = "unused"
    /\ tx_kind'[t] \in {"create_page", "handler_command", "handler_navigate",
                        "target_command"}
    /\ tx_call'[t] = -1

\* C13: when the submission of a command fails, for CreatePage, for a Command
\* message of the inbound channel and for a command forwarded by a target
\* alike, the Handler keeps running, the reply channel of that request
\* carries an error and the pending table gets no entry.
C13_SubmissionFailureOnReplyChannel ==
    [][\A t \in Txs :
          IsFailedSubmission(t) =>
              /\ pc' # "panicked"
              /\ Len(replies'[t]) = 1
              /\ replies'[t][1].tag = "Err"
              /\ pending_commands' = pending_commands
      ]_vars

\* the step is one poll of the HttpFuture
IsHttpPoll == task'.polls = task.polls + 1

\* C14: the navigation future has been polled, and the HttpFuture has
\* resolved with a navigation outcome, only after the command future
\* completed and the HttpFuture saw it; once the command has completed with a
\* response, what the HttpFuture resolves with is the navigation future's
\* outcome and nothing of the response.
C14_CommandBeforeNavigation ==
    /\ navigation.polls > 0 =>
          /\ command.terminated
          /\ IsSome(command.out)
          /\ Unwrap(command.out).tag = "Ok"
    /\ IsSome(task.result) =>
          /\ command.terminated
          /\ IsSome(command.out)
          /\ Unwrap(command.out).tag = "Ok" =>
                /\ task.result = navigation.out
                /\ navigation.polls > 0

\* C14 witness: the navigation was ready before the command's response, the
\* HttpFuture was polled meanwhile, and it has resolved with the navigation's
\* outcome after the response
C14_Witness ==
    /\ IsSome(task.result)
    /\ task.result = navigation.out
    /\ Unwrap(command.out).tag = "Ok"
    /\ command.waker
    /\ navigation.polls = 1
    /\ task.polls >= 3

\* C15: a poll in which the command future completes with an error resolves
\* the HttpFuture with that error, and the navigation future has not been
\* polled up to and including that poll.
C15_CommandErrorResolvesAtOnce ==
    [][(/\ IsHttpPoll
        /\ ~command.terminated
        /\ IsSome(command.out)
        /\ Unwrap(command.out).tag = "Err") =>
           /\ task'.result = command.out
           /\ navigation'.polls = 0
           /\ navigation' = navigation
      ]_vars

\* C15 witness: the HttpFuture has resolved with the command's error while
\* the navigation future, never polled, is ready with an outcome
C15_Witness ==
    /\ IsSome(task.result)
    /\ Unwrap(task.result).tag = "Err"
    /\ task.result = command.out
    /\ IsSome(navigation.out)
    /\ navigation.polls = 0
    /\ task.polls >= 2

\* the HttpFuture has seen the command's response and has not resolved
InNavigationPhase ==
    /\ command.terminated
    /\ Unwrap(command.out).tag = "Ok"
    /\ task.result = None

\* C20: the poll that sees the command's response leaves the task woken; from
\* then on, while the HttpFuture has not resolved, the task is woken or the
\* navigation future is pending and holds its waker; and once the response
\* has been seen and the navigation future is ready, the HttpFuture resolves.
C20_NoLostWakeupAtSwitch ==
    /\ [][(IsHttpPoll /\ ~command.terminated /\ IsSome(command.out)
              /\ Unwrap(command.out).tag = "Ok") => task'.woken]_vars
    /\ [](InNavigationPhase =>
             \/ task.woken
             \/ navigation.out = None /\ navigation.waker)
    /\ ((InNavigationPhase /\ IsSome(navigation.out)) ~> IsSome(task.result))

\* C20 witness: the HttpFuture has resolved with the outcome of a navigation
\* that was not ready when the command's response was seen, with no wake-up
\* but its own and the navigation future's
C20_Witness ==
    /\ IsSome(task.result)
    /\ task.result = navigation.out
    /\ task.spurious = 0
    /\ navigation.polls = 2

\* the registry holds a target whose current session-id is s
HasCurrentSession(s) == \E t \in DOMAIN targets : targets[t].session_id = Some(s)

\* C16: an event that carries the session-id of a session attached to a
\* target of the registry, and not detached since, is handed to that target:
\* the session table leads to the target, and the Handler's own dispatch does
\* not act on the event.
C16_AttachedSessionRoutesToTarget ==
    [][(/\ last'.op = "event"
        /\ IsSome(last'.sid)
        /\ Unwrap(last'.sid) \in attached
        /\ HasCurrentSession(Unwrap(last'.sid))) =>
           /\ Routed([sid |-> last'.sid])
           /\ UNCHANGED <<target_ids, targets, sessions>>
      ]_vars

\* C19: DetachedFromTarget(S), for a session S that is attached and is the
\* current session-id of a target of the registry, leaves S out of the
\* session table and leaves no target of the registry with S as its current
\* session-id.
C19_DetachClearsSessionSlot ==
    [][(/\ last'.op = "event"
        /\ last'.tag = "DetachedFromTarget"
        /\ last'.session \in attached
        /\ HasCurrentSession(last'.session)) =>
           /\ last'.session \notin DOMAIN sessions'
           /\ \A t \in DOMAIN targets' :
                 targets'[t].session_id # Some(last'.session)
      ]_vars

\* the list s back to front
Reverse(s) == [i \in 1 .. Len(s) |-> s[Len(s) + 1 - i]]

\* the ids of the list the loop started from whose targets the registry held
\* then, last first
VisitOrder ==
    LET Registered(t) == t \in visit.registry
    IN  Reverse(SelectSeq(visit.start, Registered))

IsInternalResponse(t) ==
    /\ last'.op = "response"
    /\ last'.resp.id \in DOMAIN pending_commands
    /\ pending_commands[last'.resp.id].req = InternalCommand(t)

\* C18: the response to an internal command of target T takes the entry out
\* of the pending table and, when the registry holds T, reaches T and no
\* other target; when it does not, the response reaches no target; nothing
\* else changes.
C18_InternalResponseReachesIssuer ==
    [][\A t \in TargetIds \cup LoopTargetIds :
          IsInternalResponse(t) =>
              /\ pending_commands' = MapRemove(pending_commands, last'.resp.id)
              /\ targets' = IF t \in DOMAIN targets
                            THEN [targets EXCEPT ![t].responses =
                                                    @ \cup {last'.resp.id}]
                            ELSE targets
              /\ UNCHANGED <<target_ids, navigations, sessions, replies, pc,
                             next_navigation_id>>
      ]_vars

\* C18 witness: T2 has the response to its own internal command, and the
\* response dispatched last, to an internal command of T1, reached no target
\* because T1 had been destroyed
C18_Witness ==
    /\ last.op = "response"
    /\ "T1" \notin DOMAIN targets
    /\ "T2" \in DOMAIN targets
    /\ \E c \in CallIds :
          /\ c # last.resp.id
          /\ targets["T2"].responses = {c}
          /\ responded = {c, last.resp.id}
    /\ pending_commands = EmptyMap

\* C21: the navigation-id handed to a new navigation is the id of no entry of
\* the navigation table, and an entry of the table keeps its reply channel
\* for as long as it is in the table.
C21_WrappedIdMissesLiveNavigations ==
    [][/\ next_navigation_id' # next_navigation_id =>
             next_navigation_id \notin DOMAIN navigations
       /\ \A id \in DOMAIN navigations \cap DOMAIN navigations' :
             navigations'[id].tx = navigations[id].tx
      ]_vars

====
